---- MODULE Spec2Model ----
(***************************************************************************)
(* Model of the Spyder streaming service (streaming-service/src/server.ts): *)
(* TCP ingress -> JSON.parse -> isValidData -> safeTemp + websocket         *)
(* broadcast.  Temperatures and JavaScript numbers are kept in tenths of a  *)
(* degree (Tenths), so 80.1 is 801; time is in milliseconds.                 *)
(***************************************************************************)
EXTENDS Integers, Naturals, Sequences, FiniteSets, TLC

\* ------------------------------------------------------------ bounds
\* Spec, the whole pipeline: reads and clock.
MaxMsgs == 3
MaxTime == 2500
\* SpecMonitor, the safety monitor alone (no observer connects): reads and clock.
MaxMonitorMsgs == 6
MaxMonitorTime == 10004
\* SpecValidator, one handler run on every message of AllMessages: reads.
MaxValidatorMsgs == 1
\* SpecObservers, the broadcast with observers that write, stall and fail: reads.
MaxObserverMsgs == 3
\* SpecIngress, the byte stream of one producer cut into reads: messages written.
MaxIngressMsgs == 2
\* SpecProducers, two producers whose reads interleave: reads.
MaxProducerMsgs == 3
\* SpecWindow, the window of the monitor with the times of a run kept: reads, clock.
MaxWindowMsgs == 4
MaxWindowTime == 7502
\* SpecTwin, two runs of the monitor that differ in the payload timestamps: reads,
\* clock.
MaxTwinMsgs == 4
MaxTwinTime == 5001
\* SpecNumeral, two runs of the handler, one fed numeral strings and the other the
\* equal numbers: reads, clock.
MaxNumeralMsgs == 3
MaxNumeralTime == 5001
\* SpecStreak, the monitor over several emissions, the unsafe samples in a row
\* counted: reads, clock.
MaxStreakMsgs == 6
MaxStreakTime == 5001
\* SpecDashboard, the dashboard on messages of every kind: readings taken in,
\* clock.
MaxReadings == 3
MaxDashboardTime == 2501
\* SpecHistory, the dashboard past the limits of its lists: readings taken in,
\* and how many of them are safe.
MaxHistoryReadings == 52
MaxQuietReadings == 2

\* ------------------------------------------------------------ JavaScript numbers
\* A JavaScript number: finite (v in tenths), +/-Infinity (v = 1 / -1) or NaN.
Tenths(n) == n * 10
Fin(n) == [k |-> "fin", v |-> n]
Inf(sign) == [k |-> "inf", v |-> sign]
NaN == [k |-> "nan", v |-> 0]

isNaN(x) == x.k = "nan"
isFinite(x) == x.k = "fin"

\* x > y and x < y on numbers: every comparison with NaN is false.
NumGt(x, y) ==
  /\ x.k # "nan" /\ y.k # "nan"
  /\ IF x.k = "fin" /\ y.k = "fin" THEN x.v > y.v
     ELSE IF x.k = "inf" /\ y.k = "inf" THEN x.v > y.v
     ELSE IF x.k = "inf" THEN x.v = 1
     ELSE y.v = -1
NumLt(x, y) == NumGt(y, x)

\* ------------------------------------------------------------ strings
\* A string is a sequence of one-character strings.
DigitChars == <<"0", "1", "2", "3", "4", "5", "6", "7", "8", "9">>
IsDigit(c) == \E i \in 1..10 : DigitChars[i] = c
DigitVal(c) == (CHOOSE i \in 1..10 : DigitChars[i] = c) - 1
IsSpace(c) == c = " "
InfinityChars == <<"I", "n", "f", "i", "n", "i", "t", "y">>

Drop(s, n) == SubSeq(s, n + 1, Len(s))
StartsWith(s, p) == Len(s) >= Len(p) /\ SubSeq(s, 1, Len(p)) = p

RECURSIVE TrimStart(_)
TrimStart(s) == IF s # <<>> /\ IsSpace(Head(s)) THEN TrimStart(Tail(s)) ELSE s

\* Number of leading digits of s.
RECURSIVE DigitRun(_)
DigitRun(s) == IF s # <<>> /\ IsDigit(Head(s)) THEN 1 + DigitRun(Tail(s)) ELSE 0

\* Value of a sequence of digits, as an integer.
RECURSIVE DigitsValue(_)
DigitsValue(s) ==
  IF s = <<>> THEN 0 ELSE DigitsValue(SubSeq(s, 1, Len(s) - 1)) * 10 + DigitVal(s[Len(s)])

\* parseFloat with the fraction dropped.
parseFloatWhole(str) ==
  LET t == TrimStart(str)
      neg == t # <<>> /\ Head(t) = "-"
      signed == t # <<>> /\ Head(t) \in {"-", "+"}
      u == IF signed THEN Tail(t) ELSE t
      sgn == IF neg THEN -1 ELSE 1
      nInt == DigitRun(u)
  IN  IF StartsWith(u, InfinityChars) THEN Inf(sgn)
      ELSE IF nInt = 0 THEN NaN
      ELSE Fin(sgn * Tenths(DigitsValue(SubSeq(u, 1, nInt))))

\* parseFloat: skip leading white space, then read the longest prefix that is a
\* decimal literal (sign, "Infinity" or digits with an optional fraction); NaN
\* when there is none.  The strings of this model have at most one fractional
\* digit and no exponent part, so the value in tenths is exact.
parseFloat(str) ==
  LET t == TrimStart(str)
      neg == t # <<>> /\ Head(t) = "-"
      signed == t # <<>> /\ Head(t) \in {"-", "+"}
      u == IF signed THEN Tail(t) ELSE t
      sgn == IF neg THEN -1 ELSE 1
      nInt == DigitRun(u)
      afterInt == Drop(u, nInt)
      hasDot == afterInt # <<>> /\ Head(afterInt) = "."
      frac == IF hasDot THEN Tail(afterInt) ELSE <<>>
      nFrac == DigitRun(frac)
      tenths == IF nFrac > 0 THEN DigitVal(frac[1]) ELSE 0
  IN  IF StartsWith(u, InfinityChars) THEN Inf(sgn)
      ELSE IF nInt = 0 /\ nFrac = 0 THEN NaN
      ELSE Fin(sgn * (Tenths(DigitsValue(SubSeq(u, 1, nInt))) + tenths))

\* ------------------------------------------------------------ JSON values
\* A JSON value as JSON.parse returns it.  kind is the JSON kind; num is the
\* value of a number (a literal too large for a double parses to Infinity), str
\* the characters of a string.  The only array of the model is [] and the only
\* object value of a field is {}.
JNumber(x) == [kind |-> "number", num |-> x, str |-> <<>>]
JString(s) == [kind |-> "string", num |-> NaN, str |-> s]
JTrue == [kind |-> "true", num |-> NaN, str |-> <<>>]
JFalse == [kind |-> "false", num |-> NaN, str |-> <<>>]
JNull == [kind |-> "null", num |-> NaN, str |-> <<>>]
JObject == [kind |-> "object", num |-> NaN, str |-> <<>>]
JArray == [kind |-> "array", num |-> NaN, str |-> <<>>]

\* typeof x
TypeOf(x) ==
  CASE x.kind = "number" -> "number"
    [] x.kind = "string" -> "string"
    [] x.kind \in {"true", "false"} -> "boolean"
    [] OTHER -> "object"

\* ToNumber(x), the conversion the relational operators apply to an operand that
\* is not a number: true is 1, false and null are 0, [] is "" is 0, {} is NaN.
\* (safeTemp never compares a string: it has parseFloat-ed it.)
ToNumber(x) ==
  CASE x.kind = "number" -> x.num
    [] x.kind = "true" -> Fin(Tenths(1))
    [] x.kind \in {"false", "null", "array"} -> Fin(0)
    [] OTHER -> NaN

\* ------------------------------------------------------------ messages
\* One read from the TCP socket, as text.  json = FALSE is text JSON.parse throws
\* on; otherwise top is the kind of the parsed value, keys the keys of a parsed
\* object, and battery_temperature / timestamp the values under those keys (JNull
\* when the key is absent).  note holds the bytes of the string under a further
\* key "note", which isValidData does not look at.  A byte is below 128 (ASCII)
\* or 255, which no UTF-8 text contains.
Keys == {"battery_temperature", "timestamp"}
Msg(top, keys, temp, time) ==
  [json |-> TRUE, top |-> top, keys |-> keys, battery_temperature |-> temp, timestamp |-> time,
   note |-> <<>>]
Sample(temp, time) == Msg("object", Keys, temp, time)
Garbage ==
  [json |-> FALSE, top |-> "null", keys |-> {}, battery_temperature |-> JNull, timestamp |-> JNull,
   note |-> <<>>]
WithNote(m, bytes) == [m EXCEPT !.note = bytes, !.keys = @ \cup {"note"}]

\* msg.toString(): the bytes decoded as UTF-8; a byte that is no UTF-8 becomes
\* U+FFFD.
ReplacementChar == 65533
Utf8Decode(bytes) ==
  [i \in 1..Len(bytes) |-> IF bytes[i] < 128 THEN bytes[i] ELSE ReplacementChar]
toString(msg) == [msg EXCEPT !.note = Utf8Decode(msg.note)]

\* The bytes of the text frame client.send(message) writes: the string encoded
\* as UTF-8 (U+FFFD is EF BF BD).
RECURSIVE Utf8Encode(_)
Utf8Encode(chars) ==
  IF chars = <<>> THEN <<>>
  ELSE (IF Head(chars) < 128 THEN <<Head(chars)>> ELSE <<239, 191, 189>>)
         \o Utf8Encode(Tail(chars))
FrameBytes(message) == [message EXCEPT !.note = Utf8Encode(message.note)]

TempValues ==
  { JNumber(Fin(199)), JNumber(Fin(200)), JNumber(Fin(500)), JNumber(Fin(800)),
    JNumber(Fin(801)), JNumber(Fin(-50)), JNumber(Inf(1)), JNumber(Inf(-1)),
    JString(<<"1", "9", ".", "9">>), JString(<<"2", "0">>), JString(<<"5", "0">>),
    JString(<<"8", "0">>), JString(<<"8", "0", ".", "1">>), JString(<<"-", "5">>),
    JString(<<" ", "9", "0">>), JString(<<"a", "b", "c">>), JString(<<>>),
    JString(<<"1", "2", "a", "b", "c">>), JString(InfinityChars),
    JString(<<"N", "a", "N">>),
    JTrue, JFalse, JNull, JObject, JArray }
TimeValues ==
  { JNumber(Fin(17000)), JNumber(Fin(0)), JNumber(Inf(1)),
    JString(<<"1", "7", "0", "0">>), JNull, JTrue, JObject }

\* Every message of the model: the samples, and the texts that are no sample.
AllMessages ==
  { Sample(t, ts) : t \in TempValues, ts \in TimeValues }
    \cup { Garbage,
           Msg("null", {}, JNull, JNull), Msg("number", {}, JNull, JNull),
           Msg("string", {}, JNull, JNull), Msg("array", {}, JNull, JNull),
           Msg("object", {}, JNull, JNull),
           Msg("object", {"battery_temperature"}, JNumber(Fin(900)), JNull),
           Msg("object", {"timestamp"}, JNull, JNumber(Fin(17000))) }

\* The messages the producers of the pipeline send: each way of being rejected,
\* and accepted samples of every temperature class.
Messages ==
  { Garbage,
    Msg("object", {"timestamp"}, JNull, JNumber(Fin(17000))),
    Sample(JString(<<"a", "b", "c">>), JNumber(Fin(17000))),
    Sample(JNumber(Fin(500)), JString(<<"1", "7", "0", "0">>)),
    Sample(JNumber(Fin(199)), JNumber(Fin(17000))),
    Sample(JNumber(Fin(200)), JNumber(Fin(17000))),
    Sample(JNumber(Fin(800)), JNumber(Fin(17000))),
    Sample(JNumber(Fin(801)), JNumber(Fin(17000))),
    Sample(JString(<<"5", "0">>), JNumber(Fin(17000))),
    Sample(JString(<<" ", "9", "0">>), JNumber(Fin(17000))),
    Sample(JString(<<"1", "2", "a", "b", "c">>), JNumber(Fin(17000))),
    Sample(JTrue, JNumber(Fin(17000))),
    Sample(JObject, JNumber(Fin(17000))) }

\* The messages of the broadcast: a rejected text, samples safe and unsafe, and
\* samples with a note in ASCII ("A") and with a byte that is no UTF-8.
ObserverMessages ==
  { Garbage,
    Sample(JNumber(Fin(500)), JNumber(Fin(17000))),
    Sample(JString(<<"9", "0">>), JNumber(Fin(17000))),
    WithNote(Sample(JNumber(Fin(500)), JNumber(Fin(17000))), <<65>>),
    WithNote(Sample(JNumber(Fin(900)), JNumber(Fin(17000))), <<255>>) }

\* The messages of the byte stream: a safe and an unsafe sample.
IngressMessages ==
  { Sample(JNumber(Fin(500)), JNumber(Fin(17000))),
    Sample(JNumber(Fin(900)), JNumber(Fin(17000))) }

\* The text of a sample on the wire, in the pieces a read can cut it into: the
\* opening brace, the members, the closing brace.
OpenBrace == [part |-> "{", of |-> Garbage]
CloseBrace == [part |-> "}", of |-> Garbage]
Members(m) == [part |-> "members", of |-> m]
Text(m) == <<OpenBrace, Members(m), CloseBrace>>

\* The msg of a read that returned these pieces: the sample when they are one
\* whole text; a part of a text, or texts one after another, is no JSON.
ReadOf(chunk) ==
  IF Len(chunk) = 3 /\ chunk = Text(chunk[2].of) THEN chunk[2].of ELSE Garbage

\* The messages of the window: a rejected text, a safe sample, and unsafe
\* samples below and above the range.
WindowMessages ==
  { Garbage,
    Sample(JNumber(Fin(500)), JNumber(Fin(17000))),
    Sample(JNumber(Fin(100)), JNumber(Fin(17000))),
    Sample(JNumber(Fin(900)), JNumber(Fin(17000))) }

\* The timestamps the second run carries in its payloads: 0, 1700 and 9000 ms.
TwinTimestamps == {Fin(0), Fin(Tenths(1700)), Fin(Tenths(9000))}

\* Decimal numerals as strings, each with the number it denotes (in tenths):
\* on both sides of each limit of the safe range, negative, and with white
\* space in front.
NumeralPairs ==
  { <<<<"1", "9", ".", "9">>, 199>>, <<<<"2", "0">>, 200>>, <<<<"5", "0">>, 500>>,
    <<<<"8", "0">>, 800>>, <<<<"8", "0", ".", "1">>, 801>>, <<<<"-", "5">>, -50>>,
    <<<<" ", "9", "0">>, 900>> }

\* ------------------------------------------------------------ the validator
\* JSON.parse(message) throws on text that is not JSON.
JSONParseThrows(message) == ~message.json
JSONParse(message) ==
  [top |-> message.top, keys |-> message.keys,
   battery_temperature |-> message.battery_temperature,
   timestamp |-> message.timestamp]

\* !data || typeof data != "object": null is falsy; a number, string or boolean
\* is no object; an array is one.
NotAnObject(data) == data.top \notin {"object", "array"}

\* The temperature check of isValidData: a string must parseFloat to a non-NaN, a
\* number must be finite; a value of any other type passes (there is no else).
TempRejected(temp) ==
  IF TypeOf(temp) = "string" THEN isNaN(parseFloat(temp.str))
  ELSE IF TypeOf(temp) = "number" THEN isNaN(temp.num) \/ ~isFinite(temp.num)
  ELSE FALSE

\* The timestamp check written as the temperature check is.
TimeRejectedLikeTemp(time) ==
  IF TypeOf(time) = "string" THEN isNaN(parseFloat(time.str))
  ELSE IF TypeOf(time) = "number" THEN isNaN(time.num) \/ ~isFinite(time.num)
  ELSE FALSE

\* The timestamp check of isValidData.
TimeRejected(time) ==
  \/ TypeOf(time) # "number"
  \/ isNaN(time.num) \/ ~isFinite(time.num)

\* The temperature check of the file's first isValidData, which the second
\* replaces: out of 20..80 is rejected, and so is a value of any other type.
TempRejectedRanged(temp) ==
  IF TypeOf(temp) = "string"
  THEN \/ isNaN(parseFloat(temp.str))
       \/ NumGt(parseFloat(temp.str), Fin(Tenths(80)))
       \/ NumLt(parseFloat(temp.str), Fin(Tenths(20)))
  ELSE IF TypeOf(temp) = "number"
  THEN \/ isNaN(temp.num) \/ ~isFinite(temp.num)
       \/ NumGt(temp.num, Fin(Tenths(80)))
       \/ NumLt(temp.num, Fin(Tenths(20)))
  ELSE TRUE

isValidDataRanged(data) ==
  /\ ~NotAnObject(data)
  /\ "battery_temperature" \in data.keys /\ "timestamp" \in data.keys
  /\ ~TempRejectedRanged(data.battery_temperature)
  /\ ~TimeRejected(data.timestamp)

isValidData(data) ==
  /\ ~NotAnObject(data)
  /\ "battery_temperature" \in data.keys /\ "timestamp" \in data.keys
  /\ ~TempRejected(data.battery_temperature)
  /\ ~TimeRejected(data.timestamp)

\* Where the handler stops validating a message: the catch of JSON.parse, one of
\* the return false of isValidData, or its return true.  The code reports none
\* of this but the log lines "failed to parse JSON" and "bad data".
ReturnedAt(message) ==
  IF JSONParseThrows(message) THEN "catch"
  ELSE LET data == JSONParse(message) IN
       IF NotAnObject(data) THEN "object"
       ELSE IF ~("battery_temperature" \in data.keys /\ "timestamp" \in data.keys)
       THEN "fields"
       ELSE IF TempRejected(data.battery_temperature) THEN "temperature"
       ELSE IF TimeRejected(data.timestamp) THEN "timestamp"
       ELSE "true"

\* ------------------------------------------------------------ the safety monitor
MinSafe == 20
MaxSafe == 80
WindowMs == 5000

\* firstUnsafe is null (<<>>) or a time (<<t>>).
Null == <<>>

\* let temp: the string is parseFloat-ed, any other value is taken as it is.
TempOf(data) ==
  IF TypeOf(data.battery_temperature) = "string"
  THEN JNumber(parseFloat(data.battery_temperature.str))
  ELSE data.battery_temperature

\* temp > 80 || temp < 20
IsUnsafeInclusive(temp) ==
  \/ ~NumLt(ToNumber(temp), Fin(Tenths(MaxSafe)))
  \/ NumLt(ToNumber(temp), Fin(Tenths(MinSafe)))
IsUnsafe(temp) ==
  \/ NumGt(ToNumber(temp), Fin(Tenths(MaxSafe)))
  \/ NumLt(ToNumber(temp), Fin(Tenths(MinSafe)))

\* firstUnsafe == null || currTime - firstUnsafe > 5000
NewWindowAtLimit(first, currTime) == first = Null \/ currTime - first[1] >= WindowMs
NewWindowSwapped(first, currTime) == first = Null \/ first[1] - currTime > WindowMs
NewWindow(first, currTime) == first = Null \/ currTime - first[1] > WindowMs

\* unsafeTemp >= 3
Threshold == 3
TriggeredAbove(count) == count > Threshold
Triggered(count) == count >= Threshold

\* safeTemp with the reset after the shutdown left out.
safeTempNoReset(data, currTime, count, first) ==
  IF IsUnsafe(TempOf(data))
  THEN LET c == IF NewWindow(first, currTime) THEN 1 ELSE count + 1
           f == IF NewWindow(first, currTime) THEN <<currTime>> ELSE first
       IN  [unsafeTemp |-> c, firstUnsafe |-> f, shutdown |-> Triggered(c)]
  ELSE [unsafeTemp |-> 0, firstUnsafe |-> Null, shutdown |-> FALSE]

\* safeTemp with the payload's timestamp (ms) taken for the time.
safeTempPayloadTime(data, currTime, count, first) ==
  LET t == data.timestamp.num.v \div 10 IN
  IF IsUnsafe(TempOf(data))
  THEN LET c == IF NewWindow(first, t) THEN 1 ELSE count + 1
           f == IF NewWindow(first, t) THEN <<t>> ELSE first
       IN  IF Triggered(c)
           THEN [unsafeTemp |-> 0, firstUnsafe |-> Null, shutdown |-> TRUE]
           ELSE [unsafeTemp |-> c, firstUnsafe |-> f, shutdown |-> FALSE]
  ELSE [unsafeTemp |-> 0, firstUnsafe |-> Null, shutdown |-> FALSE]

\* safeTemp with the sample that triggers counted as the first of the next window.
safeTempRestartsAtOne(data, currTime, count, first) ==
  IF IsUnsafe(TempOf(data))
  THEN LET c == IF NewWindow(first, currTime) THEN 1 ELSE count + 1
           f == IF NewWindow(first, currTime) THEN <<currTime>> ELSE first
       IN  IF Triggered(c)
           THEN [unsafeTemp |-> 1, firstUnsafe |-> <<currTime>>, shutdown |-> TRUE]
           ELSE [unsafeTemp |-> c, firstUnsafe |-> f, shutdown |-> FALSE]
  ELSE [unsafeTemp |-> 0, firstUnsafe |-> Null, shutdown |-> FALSE]

\* safeTemp with unsafeTemp = 0 left out of the reset after the shutdown.
safeTempKeepsCount(data, currTime, count, first) ==
  IF IsUnsafe(TempOf(data))
  THEN LET c == IF NewWindow(first, currTime) THEN 1 ELSE count + 1
           f == IF NewWindow(first, currTime) THEN <<currTime>> ELSE first
       IN  IF Triggered(c)
           THEN [unsafeTemp |-> c, firstUnsafe |-> Null, shutdown |-> TRUE]
           ELSE [unsafeTemp |-> c, firstUnsafe |-> f, shutdown |-> FALSE]
  ELSE [unsafeTemp |-> 0, firstUnsafe |-> Null, shutdown |-> FALSE]

\* safeTemp with the window measured from the latest unsafe sample.
safeTempSliding(data, currTime, count, first) ==
  IF IsUnsafe(TempOf(data))
  THEN LET c == IF NewWindow(first, currTime) THEN 1 ELSE count + 1
           f == <<currTime>>
       IN  IF Triggered(c)
           THEN [unsafeTemp |-> 0, firstUnsafe |-> Null, shutdown |-> TRUE]
           ELSE [unsafeTemp |-> c, firstUnsafe |-> f, shutdown |-> FALSE]
  ELSE [unsafeTemp |-> 0, firstUnsafe |-> Null, shutdown |-> FALSE]

\* safeTemp with firstUnsafe = null left out of the reset after the shutdown.
safeTempKeepsFirst(data, currTime, count, first) ==
  IF IsUnsafe(TempOf(data))
  THEN LET c == IF NewWindow(first, currTime) THEN 1 ELSE count + 1
           f == IF NewWindow(first, currTime) THEN <<currTime>> ELSE first
       IN  IF Triggered(c)
           THEN [unsafeTemp |-> 0, firstUnsafe |-> f, shutdown |-> TRUE]
           ELSE [unsafeTemp |-> c, firstUnsafe |-> f, shutdown |-> FALSE]
  ELSE [unsafeTemp |-> 0, firstUnsafe |-> Null, shutdown |-> FALSE]

\* safeTemp(data) at time currTime from (count, first): the new unsafeTemp and
\* firstUnsafe, and whether SHUT DOWN THE BATTERY was written.
safeTemp(data, currTime, count, first) ==
  IF IsUnsafe(TempOf(data))
  THEN LET c == IF NewWindow(first, currTime) THEN 1 ELSE count + 1
           f == IF NewWindow(first, currTime) THEN <<currTime>> ELSE first
       IN  IF Triggered(c)
           THEN [unsafeTemp |-> 0, firstUnsafe |-> Null, shutdown |-> TRUE]
           ELSE [unsafeTemp |-> c, firstUnsafe |-> f, shutdown |-> FALSE]
  ELSE [unsafeTemp |-> 0, firstUnsafe |-> Null, shutdown |-> FALSE]

\* ------------------------------------------------------------ the dashboard
\* (ui/src/app/page.tsx)
\* The messages a dashboard receives: samples with a safe, a warning and two
\* danger temperatures, and with temperatures that are no finite number: a
\* numeral string, true, and a literal too large for a double.
DashboardMessages ==
  { Sample(JNumber(Fin(500)), JNumber(Fin(Tenths(1700)))),
    Sample(JNumber(Fin(770)), JNumber(Fin(Tenths(1700)))),
    Sample(JNumber(Fin(900)), JNumber(Fin(Tenths(1700)))),
    Sample(JNumber(Fin(150)), JNumber(Fin(Tenths(1700)))),
    Sample(JString(<<"5", "0">>), JNumber(Fin(Tenths(1700)))),
    Sample(JTrue, JNumber(Fin(Tenths(1700)))),
    Sample(JNumber(Inf(1)), JNumber(Fin(Tenths(1700)))) }

\* The messages of a long run: a danger reading, a safe one, and a string.
HistoryMessages ==
  { Sample(JNumber(Fin(900)), JNumber(Fin(Tenths(1700)))),
    Sample(JNumber(Fin(500)), JNumber(Fin(Tenths(1700)))),
    Sample(JString(<<"5", "0">>), JNumber(Fin(Tenths(1700)))) }

\* updated.slice(-50) and updated.slice(-10)
HistoryLimit == 50
AlertLimit == 10

\* seq.slice(0, n)
SliceFirst(seq, n) == IF Len(seq) <= n THEN seq ELSE SubSeq(seq, 1, n)
\* seq.slice(-n)
Slice(seq, n) == IF Len(seq) <= n THEN seq ELSE SubSeq(seq, Len(seq) - n + 1, Len(seq))

\* isNaN(newTemp) alone, which converts its argument to a number first.
InvalidTemperatureCoerced(newTemp) == newTemp.kind \notin {"number", "string", "true"}
\* typeof newTemp !== "number" || isNaN(newTemp) || !isFinite(newTemp)
InvalidTemperature(newTemp) ==
  TypeOf(newTemp) # "number" \/ isNaN(newTemp.num) \/ ~isFinite(newTemp.num)

\* getTemperatureStatus(temp), temp a number.
getTemperatureStatus(temp) ==
  IF isNaN(temp) \/ ~isFinite(temp) THEN "danger"
  ELSE IF temp.v < Tenths(20) \/ temp.v > Tenths(80) THEN "danger"
  ELSE IF temp.v < Tenths(25) \/ temp.v > Tenths(75) THEN "warning"
  ELSE "safe"

\* addTemperatureAlert(temp, status) on the list alerts: the new list.  An
\* alert is its text with temp.toFixed(1) (the tenths) and the time string,
\* for which the number of the reading stands (at).
addTemperatureAlert(alerts, temp, status, at) ==
  LET alertMsg ==
        IF status = "danger"
        THEN IF temp.v < Tenths(20) THEN "CRITICAL: Temperature too low"
             ELSE IF temp.v > Tenths(80) THEN "CRITICAL: Temperature too high"
             ELSE ""
        ELSE IF temp.v < Tenths(25) THEN "WARNING: Temperature approaching lower limit"
             ELSE IF temp.v > Tenths(75) THEN "WARNING: Temperature approaching upper limit"
             ELSE ""
  IN  IF alertMsg # ""
      THEN Slice(Append(alerts, [at |-> at, text |-> alertMsg, temp |-> temp.v]), AlertLimit)
      ELSE alerts

\* updateStats(newTemp, history) on stats: the new stats at time currTime (the
\* page was mounted at time 0).  avgTemp is kept as the sum and the number of
\* temperatures it is the quotient of.
updateStats(prev, newTemp, readingsBefore, currTime) ==
  LET all == [i \in 1..Len(readingsBefore) |-> readingsBefore[i].temperature]
               \o <<newTemp>>
      temps == SelectSeq(all, LAMBDA t : ~isNaN(t) /\ isFinite(t))
      vals == {temps[i].v : i \in 1..Len(temps)}
      RECURSIVE Sum(_)
      Sum(q) == IF q = <<>> THEN 0 ELSE Head(q).v + Sum(Tail(q))
  IN  IF temps = <<>> THEN prev
      ELSE [minTemp |-> CHOOSE v \in vals : \A w \in vals : v <= w,
            maxTemp |-> CHOOSE v \in vals : \A w \in vals : v >= w,
            avgTemp |-> [sum |-> Sum(temps), of |-> Len(temps)],
            alertCount |-> prev.alertCount
                             + (IF getTemperatureStatus(newTemp) # "safe" THEN 1 ELSE 0),
            uptime |-> currTime \div 1000]

\* ------------------------------------------------------------ state
Producers == {"p1", "p2"}
Observers == {"o1", "o2"}
TickSteps == {2500, 2501}

VARIABLES
  now,          \* Date.now(), ms
  unsafeTemp,   \* let unsafeTemp
  firstUnsafe,  \* let firstUnsafe
  sockets,      \* the TCP sockets that are connected
  clients,      \* websocketServer.clients
  readyState,   \* readyState of each observer's WebSocket
  received,     \* per observer, the arrival numbers of the messages sent to it
  message,      \* const message of the last "data" event
  console,      \* what the last "data" event logged last
  nmsgs,        \* number of "data" events so far
  shutdowns,    \* number of SHUT DOWN THE BATTERY lines on stderr
  run,          \* history: safeTemp calls that found the sample unsafe since the
                \* start, the last call that found it safe, or the last shutdown
  runFirst,     \* history: currTime of the first of these calls (Null when run = 0)
  prevCount,    \* history: unsafeTemp before the last "data" event
  msg,          \* the bytes (msg) of the last "data" event
  sentPayload,  \* the bytes the last "data" event gave each OPEN client (<<>>: none)
  written,      \* per observer, how many of the sends its socket has written out
  wire,         \* the pieces a producer has written that no read has returned yet
  produced,     \* history: the messages that producer has written
  handed,       \* history: the messages JSON.parse has returned to the handler
  senders,      \* history: the producers whose "data" events have run
  lastEnd,      \* history: nmsgs when a producer socket last ended (-1: never)
  lastRun,      \* history: the times of the unsafe samples of the latest run
  twin,         \* a second run of the handler, fed at the same times reads that
                \* differ from the first run's in one field: its monitor, its
                \* last read and its last log line
  streak,       \* history: the unsafe samples since the start or the last safe one
  lastJsonMessage,     \* dashboard: the last message received, parsed (<<>>: null)
  temperature,         \* dashboard: useState temperature
  temperatureHistory,  \* dashboard: useState temperatureHistory
  temperatureAlerts,   \* dashboard: useState temperatureAlerts
  stats,               \* dashboard: useState stats
  readings             \* dashboard, history: the readings it has taken in

vars ==
  <<now, unsafeTemp, firstUnsafe, sockets, clients, readyState, received,
    message, console, nmsgs, shutdowns, run, runFirst, prevCount,
    msg, sentPayload, written, wire, produced, handed, senders, lastEnd, lastRun,
    twin, streak,
    lastJsonMessage, temperature, temperatureHistory, temperatureAlerts, stats, readings>>

\* What the last "data" event read and sent.
event == <<msg, message, console, sentPayload, nmsgs, prevCount>>
ingress == <<wire, produced, handed>>
history == <<senders, lastEnd, lastRun>>
dashboard ==
  <<lastJsonMessage, temperature, temperatureHistory, temperatureAlerts, stats, readings>>

monitor == <<unsafeTemp, firstUnsafe, shutdowns, run, runFirst>>
observers == <<clients, readyState, received>>

Init ==
  /\ now = 0
  /\ unsafeTemp = 0
  /\ firstUnsafe = Null
  /\ sockets = {}
  /\ clients = {}
  /\ readyState = [o \in Observers |-> "NEW"]
  /\ received = [o \in Observers |-> <<>>]
  /\ message = Garbage
  /\ console = "listening"
  /\ nmsgs = 0
  /\ shutdowns = 0
  /\ run = 0
  /\ runFirst = Null
  /\ prevCount = 0
  /\ msg = Garbage
  /\ sentPayload = <<>>
  /\ written = [o \in Observers |-> 0]
  /\ wire = <<>>
  /\ produced = <<>>
  /\ handed = <<>>
  /\ senders = {}
  /\ lastEnd = -1
  /\ lastRun = <<>>
  /\ twin = [unsafeTemp |-> 0, firstUnsafe |-> Null, shutdowns |-> 0, msg |-> Garbage,
             console |-> "listening"]
  /\ streak = [n |-> 0, first |-> 0, shutdowns |-> 0]
  /\ lastJsonMessage = <<>>
  /\ temperature = Fin(0)
  /\ temperatureHistory = <<>>
  /\ temperatureAlerts = <<>>
  /\ stats = [minTemp |-> 0, maxTemp |-> 0, avgTemp |-> [sum |-> 0, of |-> 1],
              alertCount |-> 0, uptime |-> 0]
  /\ readings = 0

\* ------------------------------------------------------------ actions
\* Time passes, up to the clock bound.
Tick(bound) ==
  /\ \E d \in TickSteps : now + d <= bound /\ now' = now + d
  /\ UNCHANGED <<monitor, sockets, observers, written, event, ingress, history, dashboard,
                 twin, streak>>

\* tcpServer.on("connection")
TcpConnection(p) ==
  /\ p \notin sockets
  /\ sockets' = sockets \cup {p}
  /\ UNCHANGED <<now, monitor, observers, written, event, ingress, history, dashboard,
                 twin, streak>>

\* socket.on("end") and socket.on("error"), with the monitor cleared.
DisconnectClears(p) ==
  /\ p \in sockets
  /\ sockets' = sockets \ {p}
  /\ unsafeTemp' = 0 /\ firstUnsafe' = Null /\ run' = 0 /\ runFirst' = Null
  /\ UNCHANGED <<now, shutdowns, observers, written, event, ingress, dashboard,
                 twin, streak>>

\* socket.on("end") and socket.on("error"): a line is logged, the socket is gone.
Disconnect(p) ==
  /\ p \in sockets
  /\ sockets' = sockets \ {p}
  /\ UNCHANGED <<now, monitor, observers, written, event, ingress, dashboard,
                 twin, streak>>

SocketEnd(p) == Disconnect(p) /\ UNCHANGED history

\* The same, the number of reads so far noted.
SocketEndNoted(p) == Disconnect(p) /\ lastEnd' = nmsgs /\ UNCHANGED <<senders, lastRun>>

\* websocketServer.on("connection"): the server has added the open socket to clients.
WsConnection(o) ==
  /\ readyState[o] = "NEW"
  /\ readyState' = [readyState EXCEPT ![o] = "OPEN"]
  /\ clients' = clients \cup {o}
  /\ UNCHANGED <<now, monitor, sockets, received, written, event, ingress, history, dashboard,
                 twin, streak>>

\* An observer starts closing (or its socket fails): it stays in clients, not OPEN.
WsClosing(o) ==
  /\ readyState[o] = "OPEN"
  /\ readyState' = [readyState EXCEPT ![o] = "CLOSING"]
  /\ UNCHANGED <<now, monitor, sockets, clients, received, written, event, ingress, history, dashboard,
                 twin, streak>>

\* The close completes: the server removes the socket from clients.
WsClosed(o) ==
  /\ readyState[o] = "CLOSING"
  /\ readyState' = [readyState EXCEPT ![o] = "CLOSED"]
  /\ clients' = clients \ {o}
  /\ UNCHANGED <<now, monitor, sockets, received, written, event, ingress, history, dashboard,
                 twin, streak>>

\* The socket of an OPEN observer writes out the oldest send it still holds.
\* client.send has returned long before: it only queues the frame.  An
\* observer that stalls, or whose socket has failed, never takes this step.
WsWrite(o) ==
  /\ readyState[o] = "OPEN"
  /\ written[o] < Len(received[o])
  /\ written' = [written EXCEPT ![o] = written[o] + 1]
  /\ UNCHANGED <<now, monitor, sockets, observers, event, ingress, history, dashboard,
                 twin, streak>>

\* A producer writes the text of a message to its connection.
ProducerWrite(p, m) ==
  /\ p \in sockets
  /\ wire' = wire \o Text(m)
  /\ produced' = Append(produced, m)
  /\ UNCHANGED <<now, monitor, sockets, observers, written, event, handed, history, dashboard,
                 twin, streak>>

\* client.send(message) for every client, whatever its readyState.
BroadcastAll(n) ==
  /\ received' = [o \in Observers |->
                    IF o \in clients THEN Append(received[o], n) ELSE received[o]]
  /\ written' = written

\* client.send(message) for every client, abandoned when a client is not OPEN.
BroadcastAbandoned(n) ==
  /\ received' = [o \in Observers |->
                    IF o \in clients /\ \A q \in clients : readyState[q] = "OPEN"
                    THEN Append(received[o], n) ELSE received[o]]
  /\ written' = written

\* client.send(message) for every client that is OPEN, the handler going on
\* only when the client's socket has written out all it was sent.
BroadcastAwaited(n) ==
  /\ received' = [o \in Observers |->
                    IF o \in clients /\ readyState[o] = "OPEN"
                    THEN Append(received[o], n) ELSE received[o]]
  /\ written' = [o \in Observers |->
                   IF o \in clients /\ readyState[o] = "OPEN"
                   THEN Len(received[o]) + 1 ELSE written[o]]

\* client.send(message) for every client that is OPEN: the frame is queued on
\* the client's socket and send returns, no write waited for.
Broadcast(n) ==
  /\ received' = [o \in Observers |->
                    IF o \in clients /\ readyState[o] = "OPEN"
                    THEN Append(received[o], n) ELSE received[o]]
  /\ written' = written

\* The count safeTemp reads: the one the handler before it left / the one from
\* before that handler ran.
CountSeenStale == prevCount
CountSeen == unsafeTemp

\* socket.on("data"): the whole handler, for the bytes m of one read.
Receive(m) ==
  /\ msg' = m
  /\ message' = toString(m)
  /\ nmsgs' = nmsgs + 1
  /\ prevCount' = unsafeTemp
  /\ UNCHANGED <<now, sockets, clients, readyState, dashboard>>
  /\ IF JSONParseThrows(toString(m))
     THEN /\ console' = "failed to parse JSON"
          /\ sentPayload' = <<>>
          /\ UNCHANGED <<monitor, received, written>>
     ELSE LET data == JSONParse(toString(m)) IN
          IF isValidData(data)
          THEN LET r == safeTemp(data, now, CountSeen, firstUnsafe) IN
               /\ unsafeTemp' = r.unsafeTemp
               /\ firstUnsafe' = r.firstUnsafe
               /\ shutdowns' = IF r.shutdown THEN shutdowns + 1 ELSE shutdowns
               /\ run' = IF ~IsUnsafe(TempOf(data)) \/ r.shutdown THEN 0 ELSE run + 1
               /\ runFirst' = IF ~IsUnsafe(TempOf(data)) \/ r.shutdown THEN Null
                               ELSE IF run = 0 THEN <<now>> ELSE runFirst
               /\ Broadcast(nmsgs + 1)
               /\ sentPayload' = IF \E o \in clients : readyState[o] = "OPEN"
                                  THEN <<FrameBytes(toString(m))>> ELSE <<>>
               /\ console' = "good data"
          ELSE /\ console' = "bad data"
               /\ sentPayload' = <<>>
               /\ UNCHANGED <<monitor, received, written>>

Data(p, m) ==
  /\ p \in sockets
  /\ Receive(m)
  /\ UNCHANGED <<ingress, history, twin, streak>>

\* socket.on("data") for a read that returned the first k pieces on the wire:
\* the handler takes what one read returned as one message.
SocketData(p, k) ==
  /\ p \in sockets
  /\ k \in 1..Len(wire)
  /\ LET m == ReadOf(SubSeq(wire, 1, k)) IN
       /\ Receive(m)
       /\ handed' = IF JSONParseThrows(toString(m)) THEN handed ELSE Append(handed, m)
  /\ wire' = SubSeq(wire, k + 1, Len(wire))
  /\ UNCHANGED <<produced, history, twin, streak>>

\* The same handler, the producer it ran for noted.
DataFrom(p, m) ==
  /\ p \in sockets
  /\ Receive(m)
  /\ senders' = senders \cup {p}
  /\ UNCHANGED <<ingress, lastEnd, lastRun, twin, streak>>

\* The same handler, the time noted when safeTemp found the sample unsafe.
DataTimed(p, m) ==
  /\ p \in sockets
  /\ Receive(m)
  /\ lastRun' = IF run' = run + 1 \/ shutdowns' # shutdowns
                 THEN (IF run = 0 THEN <<now>> ELSE Append(lastRun, now))
                 ELSE lastRun
  /\ UNCHANGED <<ingress, senders, lastEnd, twin, streak>>

\* The read m with the timestamp ts in place of its own, when it has a finite
\* one.
WithTimestamp(m, ts) ==
  IF m.json /\ m.timestamp.kind = "number" /\ isFinite(m.timestamp.num)
  THEN [m EXCEPT !.timestamp = JNumber(ts)] ELSE m

\* socket.on("data") in the second run, for the bytes m2: JSON.parse,
\* isValidData and safeTemp on that run's monitor.
TwinReceive(m2) ==
  IF JSONParseThrows(toString(m2))
  THEN twin' = [twin EXCEPT !.msg = m2, !.console = "failed to parse JSON"]
  ELSE LET data == JSONParse(toString(m2)) IN
       IF isValidData(data)
       THEN LET r == safeTemp(data, now, twin.unsafeTemp, twin.firstUnsafe) IN
            twin' = [unsafeTemp |-> r.unsafeTemp, firstUnsafe |-> r.firstUnsafe,
                     shutdowns |-> twin.shutdowns + (IF r.shutdown THEN 1 ELSE 0),
                     msg |-> m2, console |-> "good data"]
       ELSE twin' = [twin EXCEPT !.msg = m2, !.console = "bad data"]

\* The handler run on m, and in the second run, at the same time, on m with the
\* timestamp ts.
DataTwin(p, m, ts) ==
  /\ p \in sockets
  /\ Receive(m)
  /\ TwinReceive(WithTimestamp(m, ts))
  /\ UNCHANGED <<ingress, history, streak>>

\* The handler run on a sample whose temperature is the numeral string of the
\* pair, and in the second run, at the same time, on the sample whose
\* temperature is the number of the pair.
DataNumeral(p, pair) ==
  /\ p \in sockets
  /\ Receive(Sample(JString(pair[1]), JNumber(Fin(Tenths(1700)))))
  /\ TwinReceive(Sample(JNumber(Fin(pair[2])), JNumber(Fin(Tenths(1700)))))
  /\ UNCHANGED <<ingress, history, streak>>

\* The same handler, the unsafe samples in a row counted: a sample safeTemp
\* finds unsafe adds one, one it finds safe ends the row, a rejected read is
\* no sample.
DataStreak(p, m) ==
  /\ p \in sockets
  /\ Receive(m)
  /\ streak' =
       IF console' # "good data" THEN streak
       ELSE IF ~IsUnsafe(TempOf(JSONParse(toString(m))))
       THEN [n |-> 0, first |-> 0, shutdowns |-> 0]
       ELSE IF streak.n = 0
       THEN [n |-> 1, first |-> now, shutdowns |-> shutdowns]
       ELSE [streak EXCEPT !.n = @ + 1]
  /\ UNCHANGED <<ingress, history, twin>>

\* The effect on lastJsonMessage: the dashboard has received the message m.
\* The effect and the state updaters it queues run once for a message, as in a
\* production build.
OnMessage(m) ==
  /\ lastJsonMessage' = <<JSONParse(m)>>
  /\ LET newTemp == JSONParse(m).battery_temperature IN
       IF InvalidTemperature(newTemp)
       THEN UNCHANGED <<temperature, temperatureHistory, temperatureAlerts, stats, readings>>
       ELSE LET status == getTemperatureStatus(newTemp.num)
                newReading == [at |-> readings + 1, temperature |-> newTemp.num,
                               timestamp |-> JSONParse(m).timestamp, status |-> status]
            IN  /\ temperatureAlerts' =
                     IF status \in {"danger", "warning"}
                     THEN addTemperatureAlert(temperatureAlerts, newTemp.num, status,
                                              readings + 1)
                     ELSE temperatureAlerts
                /\ temperature' = newTemp.num
                /\ temperatureHistory' =
                     Slice(Append(temperatureHistory, newReading), HistoryLimit)
                /\ stats' = updateStats(stats, newTemp.num, temperatureHistory, now)
                /\ readings' = readings + 1
  /\ UNCHANGED <<now, monitor, sockets, observers, written, event, ingress, history,
                 twin, streak>>

Next ==
  \/ Tick(MaxTime)
  \/ \E p \in Producers : TcpConnection(p)
  \/ \E p \in Producers : SocketEnd(p)
  \/ \E o \in Observers : WsConnection(o)
  \/ \E o \in Observers : WsClosing(o)
  \/ \E o \in Observers : WsClosed(o)
  \/ \E p \in Producers, m \in Messages : nmsgs < MaxMsgs /\ Data(p, m)

Spec == Init /\ [][Next]_vars

\* The safety monitor fed by one producer, with no observer connected.
NextMonitor ==
  \/ Tick(MaxMonitorTime)
  \/ TcpConnection("p1")
  \/ SocketEnd("p1")
  \/ \E m \in Messages : nmsgs < MaxMonitorMsgs /\ Data("p1", m)

SpecMonitor == Init /\ [][NextMonitor]_vars

\* The handler on every message of the model.
NextValidator ==
  \/ TcpConnection("p1")
  \/ \E m \in AllMessages : nmsgs < MaxValidatorMsgs /\ Data("p1", m)

SpecValidator == Init /\ [][NextValidator]_vars

\* The broadcast of one producer's messages to observers that write, stall,
\* fail and close.
NextObservers ==
  \/ TcpConnection("p1")
  \/ \E o \in Observers : WsConnection(o)
  \/ \E o \in Observers : WsClosing(o)
  \/ \E o \in Observers : WsClosed(o)
  \/ \E o \in Observers : WsWrite(o)
  \/ \E m \in ObserverMessages : nmsgs < MaxObserverMsgs /\ Data("p1", m)

SpecObservers == Init /\ [][NextObservers]_vars

\* The byte stream of one producer, cut into reads by the transport.
NextIngress ==
  \/ TcpConnection("p1")
  \/ \E m \in IngressMessages : Len(produced) < MaxIngressMsgs /\ ProducerWrite("p1", m)
  \/ \E k \in 1..(3 * MaxIngressMsgs) : SocketData("p1", k)

SpecIngress == Init /\ [][NextIngress]_vars

\* Two producers whose reads interleave and whose connections end, and one
\* observer.
NextProducers ==
  \/ \E p \in Producers : TcpConnection(p)
  \/ \E p \in Producers : SocketEndNoted(p)
  \/ WsConnection("o1")
  \/ \E p \in Producers, m \in Messages : nmsgs < MaxProducerMsgs /\ DataFrom(p, m)

SpecProducers == Init /\ [][NextProducers]_vars

\* The monitor fed by one producer over more than one window, the times of the
\* unsafe samples kept.
NextWindow ==
  \/ Tick(MaxWindowTime)
  \/ TcpConnection("p1")
  \/ \E m \in WindowMessages : nmsgs < MaxWindowMsgs /\ DataTimed("p1", m)

SpecWindow == Init /\ [][NextWindow]_vars

\* Two runs of the monitor side by side: the same reads at the same times, the
\* timestamps in the payloads of the second chosen freely.
NextTwin ==
  \/ Tick(MaxTwinTime)
  \/ TcpConnection("p1")
  \/ \E m \in WindowMessages, ts \in TwinTimestamps :
       nmsgs < MaxTwinMsgs /\ DataTwin("p1", m, ts)

SpecTwin == Init /\ [][NextTwin]_vars

\* Two runs of the handler side by side: the first reads temperatures as
\* numeral strings, the second as the equal numbers.
NextNumeral ==
  \/ Tick(MaxNumeralTime)
  \/ TcpConnection("p1")
  \/ \E pair \in NumeralPairs : nmsgs < MaxNumeralMsgs /\ DataNumeral("p1", pair)

SpecNumeral == Init /\ [][NextNumeral]_vars

\* The monitor fed by one producer over several emissions.
NextStreak ==
  \/ Tick(MaxStreakTime)
  \/ TcpConnection("p1")
  \/ \E m \in WindowMessages : nmsgs < MaxStreakMsgs /\ DataStreak("p1", m)

SpecStreak == Init /\ [][NextStreak]_vars

\* The dashboard on messages of every kind.
NextDashboard ==
  \/ Tick(MaxDashboardTime)
  \/ \E m \in DashboardMessages : readings < MaxReadings /\ OnMessage(m)

SpecDashboard == Init /\ [][NextDashboard]_vars

\* The dashboard over a long run of danger readings, a few safe readings and
\* ignored messages among them.
NextHistory ==
  \E m \in HistoryMessages :
    /\ readings < MaxHistoryReadings
    /\ getTemperatureStatus(m.battery_temperature.num) = "safe" =>
         Cardinality({i \in 1..Len(temperatureHistory) :
                        temperatureHistory[i].status = "safe"}) < MaxQuietReadings
    /\ OnMessage(m)

SpecHistory == Init /\ [][NextHistory]_vars

\* ------------------------------------------------------------ what the claims speak of
\* A decimal numeral: sign, digits, and a fraction that has digits (white space
\* may lead).
IsNumeral(str) ==
  LET t == TrimStart(str)
      u == IF t # <<>> /\ Head(t) \in {"-", "+"} THEN Tail(t) ELSE t
      nInt == DigitRun(u)
      rest == Drop(u, nInt)
  IN  /\ nInt > 0
      /\ \/ rest = <<>>
         \/ /\ Head(rest) = "."
            /\ Len(rest) > 1
            /\ DigitRun(Tail(rest)) = Len(rest) - 1

\* A temperature the specification allows: a finite number or a numeral string.
TemperatureOk(temp) ==
  \/ temp.kind = "number" /\ temp.num.k = "fin"
  \/ temp.kind = "string" /\ IsNumeral(temp.str)

\* A timestamp the specification allows: a finite number.
TimestampOk(time) == time.kind = "number" /\ time.num.k = "fin"

\* A message that is a TelemetrySample.
WellFormed(m) ==
  /\ m.json /\ m.top = "object" /\ Keys \subseteq m.keys
  /\ TemperatureOk(m.battery_temperature)
  /\ TimestampOk(m.timestamp)

\* The temperature of a TelemetrySample, in tenths of a degree.
Celsius(m) ==
  IF m.battery_temperature.kind = "number" THEN m.battery_temperature.num.v
  ELSE parseFloat(m.battery_temperature.str).v

UnsafeSample(m) ==
  WellFormed(m) /\ (Celsius(m) < Tenths(MinSafe) \/ Celsius(m) > Tenths(MaxSafe))
SafeSample(m) ==
  WellFormed(m) /\ Celsius(m) >= Tenths(MinSafe) /\ Celsius(m) <= Tenths(MaxSafe)

\* This step is a "data" event; the handler accepted / rejected its message.
DataStep == nmsgs' = nmsgs + 1
Accepted == DataStep /\ console' = "good data"
Rejected == DataStep /\ console' \in {"bad data", "failed to parse JSON"}
Emits == shutdowns' = shutdowns + 1
Idle == unsafeTemp = 0 /\ firstUnsafe = Null

\* ------------------------------------------------------------ claims
\* C1: from IDLE, three accepted unsafe samples in a row, the second and third no
\* more than 5000 ms after the first: the first and the second emit nothing, the
\* third emits the critical action once and leaves the monitor IDLE.
C1_ThreeUnsafeTrigger ==
  [][ (Accepted /\ UnsafeSample(message')) =>
        /\ (run = 0 => shutdowns' = shutdowns /\ unsafeTemp' = 1)
        /\ (run = 1 /\ now - runFirst[1] <= WindowMs =>
              shutdowns' = shutdowns /\ unsafeTemp' = 2)
        /\ (run = 2 /\ now - runFirst[1] <= WindowMs =>
              Emits /\ Idle') ]_vars

C1_Witness ==
  /\ nmsgs = 3 /\ shutdowns = 1 /\ now = 5000
  /\ UnsafeSample(message) /\ console = "good data"
  /\ prevCount = 2 /\ Idle

C3_SafeResets ==
  /\ [](unsafeTemp <= run)
  /\ [][ (Accepted /\ SafeSample(message')) =>
           Idle' /\ shutdowns' = shutdowns /\ run' = 0 ]_vars

C3_Witness ==
  /\ prevCount = 2 /\ console = "good data"
  /\ SafeSample(message) /\ Celsius(message) = Tenths(MaxSafe)
  /\ Idle /\ shutdowns = 0

\* C4: an accepted unsafe sample that arrives more than 5000 ms after windowStart
\* emits nothing and starts a new window: count = 1, windowStart = its arrival.
C4_ExpiredWindowRestarts ==
  [][ (Accepted /\ UnsafeSample(message')
         /\ firstUnsafe # Null /\ now - firstUnsafe[1] > WindowMs) =>
        /\ shutdowns' = shutdowns
        /\ unsafeTemp' = 1
        /\ firstUnsafe' = <<now>> ]_vars

C4_Witness ==
  /\ prevCount = 2 /\ run = 3 /\ shutdowns = 0
  /\ UnsafeSample(message) /\ console = "good data"
  /\ unsafeTemp = 1 /\ firstUnsafe = <<now>> /\ now - runFirst[1] > WindowMs

\* C5: between "data" events, count = 0 exactly when windowStart is unset.
C5_CountZeroIffUnset == (unsafeTemp = 0) <=> (firstUnsafe = Null)

C5_Witness ==
  /\ unsafeTemp = 0 /\ firstUnsafe = Null /\ shutdowns = 1 /\ prevCount = 2
  /\ console = "good data"

\* A payload whose battery_temperature is a string that is no numeral.
NonNumeralTemperature(m) ==
  /\ m.json /\ m.top = "object" /\ "battery_temperature" \in m.keys
  /\ m.battery_temperature.kind = "string"
  /\ ~IsNumeral(m.battery_temperature.str)

\* C6: a message the handler rejects, and every payload whose battery_temperature
\* is a string that is no numeral, reaches no observer and leaves count and
\* windowStart as they were.
C6_RejectedDropped ==
  [][ (Rejected \/ (DataStep /\ NonNumeralTemperature(message'))) =>
        /\ received' = received
        /\ unsafeTemp' = unsafeTemp /\ firstUnsafe' = firstUnsafe
        /\ shutdowns' = shutdowns ]_vars

\* Everything of the message but its temperature is as the specification asks.
RestOk(m) ==
  /\ m.json /\ m.top = "object" /\ Keys \subseteq m.keys
  /\ TimestampOk(m.timestamp)

\* C7: with the rest of the message in order, the handler accepts it exactly when
\* battery_temperature is a finite number or a string that is a finite numeral.
C7_TemperatureAccepted ==
  (nmsgs >= 1 /\ RestOk(message)) =>
    ((console = "good data") <=> TemperatureOk(message.battery_temperature))

\* C8: every message the handler accepts has a timestamp that is a finite number.
C8_TimestampFiniteNumber ==
  (nmsgs >= 1 /\ console = "good data") => TimestampOk(message.timestamp)

C8_Witness ==
  /\ nmsgs = 1 /\ console = "bad data"
  /\ message = Sample(JNumber(Fin(500)), JString(<<"1", "7", "0", "0">>))

IsOpen(o) == o \in clients /\ readyState[o] = "OPEN"

\* C9: a sample whose temperature is below 20 or above 80 is accepted, is sent to
\* every open observer, and is counted by the monitor (or triggers it).
C9_OutOfRangeForwarded ==
  [][ (DataStep /\ UnsafeSample(message')) =>
        /\ console' = "good data"
        /\ \A o \in Observers : IsOpen(o) => received'[o] = Append(received[o], nmsgs')
        /\ \/ Emits /\ Idle'
           \/ shutdowns' = shutdowns /\ unsafeTemp' \in {1, unsafeTemp + 1}
                /\ firstUnsafe' # Null ]_vars

C9_Witness ==
  /\ console = "good data" /\ UnsafeSample(message)
  /\ Celsius(message) > Tenths(MaxSafe)
  /\ unsafeTemp = 2
  /\ \E o \in Observers : received[o] # <<>> /\ received[o][Len(received[o])] = nmsgs

\* C10: an accepted message is sent to the observers that are OPEN and to no
\* other, the handler ending normally; nothing else is ever sent; so what an
\* observer was sent is in arrival order, without repetition.
C10_Delivery ==
  /\ [](\A o \in Observers :
          /\ \A i \in 1..Len(received[o]) : received[o][i] \in 1..nmsgs
          /\ \A i, j \in 1..Len(received[o]) : i < j => received[o][i] < received[o][j])
  /\ [][ (DataStep /\ WellFormed(message')) => console' = "good data" ]_vars
  /\ [][ \A o \in Observers :
           received'[o] = IF Accepted /\ IsOpen(o)
                          THEN Append(received[o], nmsgs') ELSE received[o] ]_vars

C10_Witness ==
  /\ nmsgs = 3 /\ console = "good data"
  /\ received["o1"] = <<1, 3>> /\ readyState["o1"] = "OPEN"
  /\ received["o2"] = <<1>> /\ readyState["o2"] = "CLOSING"

\* The sends to observer o that its socket has not written out.
Unwritten(o) == Len(received[o]) - written[o]

\* C11: when an observer fails or disconnects, nothing changes for the other
\* observers nor for the monitor; and with an observer closing, closed, or
\* holding sends that were never written, an accepted message is still sent to
\* every other observer that is OPEN, and the monitor evaluates it as ever.
C11_ObserverFailureIsolated ==
  /\ [][ \A o \in Observers :
           (readyState[o] = "OPEN" /\ readyState'[o] # "OPEN") =>
             /\ UNCHANGED <<monitor, sockets, received, written, event>>
             /\ \A q \in Observers \ {o} :
                  readyState'[q] = readyState[q] /\ (q \in clients' <=> q \in clients) ]_vars
  /\ [][ \A o \in Observers :
           (Accepted /\ (readyState[o] \in {"CLOSING", "CLOSED"} \/ Unwritten(o) > 0)) =>
             /\ \A q \in Observers \ {o} :
                  IsOpen(q) => received'[q] = Append(received[q], nmsgs')
             /\ LET r == safeTemp(JSONParse(message'), now, unsafeTemp, firstUnsafe) IN
                  /\ unsafeTemp' = r.unsafeTemp /\ firstUnsafe' = r.firstUnsafe
                  /\ Emits <=> r.shutdown ]_vars

\* A send to o1 was never written and o1 is gone; o2 has that message and the
\* two after it, and the third unsafe sample has triggered the monitor.
C11_Witness ==
  /\ readyState["o1"] = "CLOSED" /\ received["o1"] = <<1>> /\ written["o1"] = 0
  /\ readyState["o2"] = "OPEN" /\ received["o2"] = <<1, 2, 3>>
  /\ shutdowns = 1

\* C12: once every byte the producer wrote has been read, the messages the
\* validator was handed are the messages the producer wrote, each once and in
\* order, however the transport cut the stream into reads.
C12_Framing == wire = <<>> => handed = produced

\* C13: with the reads of two producers interleaved, each handler works on the
\* state the handler before it left, as if the messages had been processed one
\* at a time in the order of their reads: no unsafe sample of the run goes
\* uncounted, whoever sent it, and a trigger comes once, on the third.
C13_SerialMonitor ==
  /\ [](firstUnsafe = runFirst => unsafeTemp = run)
  /\ [](unsafeTemp < Threshold)
  /\ [][ Accepted =>
           LET r == safeTemp(JSONParse(message'), now, unsafeTemp, firstUnsafe) IN
             /\ unsafeTemp' = r.unsafeTemp /\ firstUnsafe' = r.firstUnsafe
             /\ shutdowns' = shutdowns + (IF r.shutdown THEN 1 ELSE 0) ]_vars
  /\ [][ Rejected => UNCHANGED <<unsafeTemp, firstUnsafe, shutdowns>> ]_vars
  /\ [][ Emits => Accepted /\ run = Threshold - 1 /\ Idle' ]_vars

\* Three unsafe samples read from two producers have triggered the monitor once.
C13_Witness ==
  /\ senders = Producers /\ sockets = Producers
  /\ nmsgs = 3 /\ shutdowns = 1 /\ prevCount = 2 /\ Idle

\* Observer o is OPEN and has written out none of what it was sent.
Stalled(o) == IsOpen(o) /\ received[o] # <<>> /\ written[o] = 0

\* C14: the handler never waits for an observer: it ends with no write of any
\* observer completed by it, and while an observer is stalled an accepted
\* message is evaluated by the monitor in the step that reads it, the critical
\* action included.
C14_BroadcastNeverBlocks ==
  /\ [][ DataStep => written' = written ]_vars
  /\ [][ (Accepted /\ \E o \in Observers : Stalled(o)) =>
           /\ LET r == safeTemp(JSONParse(message'), now, unsafeTemp, firstUnsafe) IN
                /\ unsafeTemp' = r.unsafeTemp /\ firstUnsafe' = r.firstUnsafe
                /\ Emits <=> r.shutdown
           /\ UnsafeSample(message') /\ unsafeTemp = Threshold - 1 => Emits ]_vars

\* o1 has written out nothing of the three messages it was sent, and the third,
\* unsafe like the two before, has triggered the monitor.
C14_Witness ==
  /\ Stalled("o1") /\ received["o1"] = <<1, 2, 3>>
  /\ shutdowns = 1 /\ prevCount = 2 /\ UnsafeSample(message)

\* C15: the bytes an observer is sent for an accepted message are the bytes the
\* producer sent for it.
C15_PayloadForwardedUnchanged == sentPayload # <<>> => sentPayload[1] = msg

\* C18: what an observer was sent and has not written out stays below a fixed
\* bound, here one below the number of reads of the model (whatever that
\* number is): when the bound is reached a message is dropped or the observer
\* disconnected.
C18_BoundedDelivery == \A o \in Observers : Unwritten(o) < MaxObserverMsgs

\* C16: when a producer connection ends or fails, only that connection goes:
\* the count, the window start and the emissions stay as they are, and so do the
\* observers; a message read afterwards from a connection that remains is
\* validated, evaluated by the monitor and sent to the open observers as ever.
C16_ProducerEndIsolated ==
  /\ [][ \A p \in Producers :
           (p \in sockets /\ p \notin sockets') =>
             /\ sockets' = sockets \ {p}
             /\ UNCHANGED <<unsafeTemp, firstUnsafe, shutdowns, clients, readyState,
                            received, nmsgs>> ]_vars
  /\ [][ (DataStep /\ lastEnd >= 0 /\ WellFormed(message')) =>
           /\ Accepted
           /\ \A o \in Observers : IsOpen(o) => received'[o] = Append(received[o], nmsgs')
           /\ LET r == safeTemp(JSONParse(message'), now, unsafeTemp, firstUnsafe) IN
                /\ unsafeTemp' = r.unsafeTemp /\ firstUnsafe' = r.firstUnsafe
                /\ Emits <=> r.shutdown ]_vars

\* p1 is gone; a connection ended after two unsafe samples, the count kept at
\* two, and the third sample, read after that, has triggered the monitor and
\* reached the observer.
C16_Witness ==
  /\ "p1" \notin sockets /\ "p2" \in sockets /\ senders = Producers
  /\ lastEnd = 2 /\ nmsgs = 3
  /\ prevCount = 2 /\ shutdowns = 1
  /\ received["o1"] = <<1, 2, 3>>

\* The reason the specification gives a message: that of the first check it
\* fails.
FirstFailure(m) ==
  IF ~m.json THEN "MALFORMED_JSON"
  ELSE IF ~(Keys \subseteq m.keys) THEN "MISSING_FIELD"
  ELSE IF ~TemperatureOk(m.battery_temperature) THEN "NOT_A_NUMBER"
  ELSE IF ~TimestampOk(m.timestamp) THEN "INVALID_TIMESTAMP"
  ELSE "OK"

\* The reason that stands for a place where the handler stops.
ReasonAt(place) ==
  CASE place \in {"catch", "object"} -> "MALFORMED_JSON"
    [] place = "fields" -> "MISSING_FIELD"
    [] place = "temperature" -> "NOT_A_NUMBER"
    [] place = "timestamp" -> "INVALID_TIMESTAMP"
    [] place = "true" -> "OK"

\* C17: a message the handler rejects (a text that is no JSON, or a JSON object)
\* is rejected at the first check it fails, in the order MALFORMED_JSON,
\* MISSING_FIELD, NOT_A_NUMBER, INVALID_TIMESTAMP.
C17_FirstFailingReason ==
  (nmsgs > 0 /\ console # "good data" /\ (message.json => message.top = "object")) =>
    ReasonAt(ReturnedAt(message)) = FirstFailure(message)

\* The unsafe samples of the run that came at or after time t.
CountSince(t) == Cardinality({i \in 1..Len(lastRun) : lastRun[i] >= t})

\* C19: the window is anchored at the unsafe sample that opened it: an unsafe
\* sample within the window adds one and leaves the window start where it
\* was; one that comes after the window has run out opens a new window with
\* count 1, however close the unsafe samples before it are; so the count is
\* the number of unsafe samples since the window start, and the trigger comes
\* only with three of them inside one 5000 ms window.
C19_AnchoredWindow ==
  /\ [](firstUnsafe # Null =>
          /\ unsafeTemp = CountSince(firstUnsafe[1])
          /\ \E i \in 1..Len(lastRun) : lastRun[i] = firstUnsafe[1])
  /\ [][ (Accepted /\ UnsafeSample(message') /\ firstUnsafe # Null) =>
           IF now - firstUnsafe[1] <= WindowMs
           THEN \/ Emits /\ unsafeTemp = Threshold - 1
                \/ /\ shutdowns' = shutdowns
                   /\ unsafeTemp' = unsafeTemp + 1 /\ firstUnsafe' = firstUnsafe
           ELSE shutdowns' = shutdowns /\ unsafeTemp' = 1 /\ firstUnsafe' = <<now>> ]_vars
  /\ [][ Emits => firstUnsafe # Null /\ now - firstUnsafe[1] <= WindowMs ]_vars

\* Four unsafe samples in a row, the second, third and fourth within 5000 ms of
\* one another, and no critical action: the third opened a new window.
C19_Witness ==
  /\ lastRun = <<0, 2501, 5001, 7501>> /\ nmsgs = 4
  /\ shutdowns = 0 /\ unsafeTemp = 2 /\ firstUnsafe = <<5001>>

\* C20: an unsafe sample that arrives exactly 5000 ms after the window start
\* is still in the window (it is counted, and triggers as the third); one that
\* arrives later than that opens a new window.
C20_InclusiveLimit ==
  [][ (Accepted /\ UnsafeSample(message') /\ firstUnsafe # Null) =>
        /\ now - firstUnsafe[1] = WindowMs =>
             /\ firstUnsafe' # <<now>>
             /\ unsafeTemp = 1 =>
                  shutdowns' = shutdowns /\ unsafeTemp' = 2 /\ firstUnsafe' = firstUnsafe
             /\ unsafeTemp = 2 => Emits /\ Idle'
        /\ now - firstUnsafe[1] > WindowMs =>
             shutdowns' = shutdowns /\ unsafeTemp' = 1 /\ firstUnsafe' = <<now>> ]_vars

\* Unsafe samples at 0, 2500 and 5000 ms have triggered the monitor.
C20_Witness ==
  /\ lastRun = <<0, 2500, 5000>> /\ nmsgs = 3
  /\ shutdowns = 1 /\ Idle /\ now = 5000

\* C21: two runs that read samples of the same temperatures at the same times,
\* the timestamps in the payloads differing, have the same count, the same
\* window start and the same emissions after every read.
C21_ArrivalTimeOnly ==
  /\ twin.unsafeTemp = unsafeTemp
  /\ twin.firstUnsafe = firstUnsafe
  /\ twin.shutdowns = shutdowns

\* Both runs have triggered on the third unsafe sample, read at 5000 ms, whose
\* timestamp is 1700 in one run and 9000 in the other.
C21_Witness ==
  /\ nmsgs = 3 /\ now = 5000 /\ UnsafeSample(message) /\ prevCount = 2
  /\ shutdowns = 1 /\ twin.shutdowns = 1
  /\ message.timestamp = JNumber(Fin(Tenths(1700)))
  /\ twin.msg.timestamp = JNumber(Fin(Tenths(9000)))

C23_EveryThird ==
  /\ []((streak.n > 0 /\ now - streak.first <= WindowMs) =>
          /\ shutdowns - streak.shutdowns = streak.n \div Threshold
          /\ unsafeTemp = streak.n % Threshold)
  /\ [][ Emits => Idle' ]_vars
  /\ [][ (Accepted /\ UnsafeSample(message') /\ Idle) =>
           shutdowns' = shutdowns /\ unsafeTemp' = 1 /\ firstUnsafe' = <<now>> ]_vars
  /\ [][ (Accepted /\ UnsafeSample(message') /\ streak.n > 0
           /\ now - streak.first <= WindowMs) =>
           (Emits <=> streak'.n % Threshold = 0) ]_vars

\* Six unsafe samples in a row within 5000 ms: two emissions, the second with
\* the sixth sample.
C23_Witness ==
  /\ streak.n = 6 /\ streak.shutdowns = 0 /\ now - streak.first <= WindowMs
  /\ nmsgs = 6 /\ shutdowns = 2 /\ prevCount = 2 /\ Idle

\* C24: between two reads the count is 0, 1 or 2: a read that would take it to
\* 3 emits the critical action and leaves it at 0 in the same step.
C24_CounterBelowThree ==
  /\ [](unsafeTemp \in 0..(Threshold - 1))
  /\ [][ (Accepted /\ UnsafeSample(message') /\ unsafeTemp = Threshold - 1
           /\ firstUnsafe # Null /\ now - firstUnsafe[1] <= WindowMs) =>
           Emits /\ unsafeTemp' = 0 ]_vars
  /\ [][ unsafeTemp' # unsafeTemp =>
           DataStep /\ unsafeTemp' \in {0, 1, unsafeTemp + 1} ]_vars

\* The count has been at 2, the third unsafe sample has put it back to 0 with
\* an emission, and the unsafe sample after that has put it at 1.
C24_Witness ==
  /\ nmsgs = 4 /\ shutdowns = 1 /\ UnsafeSample(message)
  /\ prevCount = 0 /\ unsafeTemp = 1 /\ run = 1

\* A JSON value that is a finite number.
FiniteNumber(j) == j.kind = "number" /\ j.num.k = "fin"

\* C25: the dashboard checks battery_temperature of every message it receives.
\* A step that leaves a message in lastJsonMessage whose battery_temperature is
\* not a finite number (a string, true, an infinity) changes neither the
\* displayed temperature nor the history, the alerts or the statistics; a
\* message with a finite number becomes the displayed temperature and one more
\* reading.
C25_InvalidTemperatureIgnored ==
  /\ [][(lastJsonMessage' # <<>>
          /\ ~FiniteNumber(lastJsonMessage'[1].battery_temperature))
         => UNCHANGED <<temperature, temperatureHistory, temperatureAlerts, stats>>]_vars
  /\ [][(lastJsonMessage' # lastJsonMessage
          /\ FiniteNumber(lastJsonMessage'[1].battery_temperature))
         => /\ temperature' = lastJsonMessage'[1].battery_temperature.num
            /\ readings' = readings + 1
            /\ temperatureHistory' # temperatureHistory]_vars

\* A message with the string "50" as its temperature has come after a danger
\* and a warning reading, and the dashboard still shows the second of them.
C25_Witness ==
  /\ lastJsonMessage # <<>>
  /\ lastJsonMessage[1].battery_temperature = JString(<<"5", "0">>)
  /\ temperature = Fin(770)
  /\ readings = 2 /\ Len(temperatureHistory) = 2 /\ Len(temperatureAlerts) = 2
  /\ temperatureHistory[1].temperature = Fin(900)
  /\ stats.maxTemp = 900 /\ stats.minTemp = 770

\* The numbers of the readings in the history that raised an alert, in order.
AlertingReadings ==
  LET alerting == SelectSeq(temperatureHistory, LAMBDA r : r.status # "safe")
  IN  [i \in 1..Len(alerting) |-> alerting[i].at]

\* C26: the history is the last readings taken in, at most 50 of them, in the
\* order of their arrival, and the alerts are the last alerts raised, at most
\* 10 of them, in the order they were raised.
C26_RecentInOrder ==
  /\ Len(temperatureHistory) <= HistoryLimit
  /\ Len(temperatureHistory) = IF readings < HistoryLimit THEN readings ELSE HistoryLimit
  /\ \A i \in 1..Len(temperatureHistory) :
       temperatureHistory[i].at = readings - Len(temperatureHistory) + i
  /\ Len(temperatureAlerts) <= AlertLimit
  /\ \A i \in 1..Len(temperatureAlerts), j \in 1..Len(temperatureAlerts) :
       i < j => temperatureAlerts[i].at < temperatureAlerts[j].at
  /\ (Len(AlertingReadings) >= AlertLimit \/ readings <= HistoryLimit)
       => [i \in 1..Len(temperatureAlerts) |-> temperatureAlerts[i].at]
            = Slice(AlertingReadings, AlertLimit)

\* 52 readings have been taken in, the 47th and the 52nd of them safe: the
\* history starts at the 3rd and the alerts are those of 41..46 and 48..51.
C26_Witness ==
  /\ readings = 52
  /\ Len(temperatureHistory) = HistoryLimit /\ temperatureHistory[1].at = 3
  /\ temperatureHistory[50].status = "safe" /\ temperatureHistory[45].status = "safe"
  /\ Len(temperatureAlerts) = AlertLimit
  /\ temperatureAlerts[1].at = 41 /\ temperatureAlerts[10].at = 51

====
